---- MODULE Spec2Model ----
(***************************************************************************)
(* Deadlock-Prevention, browser front end.                                 *)
(*                                                                         *)
(* GraphVisualization (buildRAGGraph, buildWFGGraph, renderGraph and its   *)
(* hover handlers) and DeadlockApp (buildWFGFromSnapshot, the snapshot     *)
(* comparison, and the host controller: requests, view mode, real-time     *)
(* sockets, auto-refresh timer, saved snapshots), modelled from the        *)
(* JavaScript sources.                                                     *)
(*                                                                         *)
(* Representation of JavaScript values:                                    *)
(*   - a string is the sequence of its characters, <<"1","_","A">> for     *)
(*     "1_A";                                                              *)
(*   - a number is an integer, NaN is the value NaN below;                 *)
(*   - an object used as a mapping (allocation, request, resources, wfg)   *)
(*     is the sequence of its Object.entries, each [key, value], with      *)
(*     distinct keys;                                                      *)
(*   - an object with fixed fields (a process entry, a node, a link) is a  *)
(*     record;                                                             *)
(*   - null is Null (the empty sequence) and a present object o is <<o>>.  *)
(***************************************************************************)
EXTENDS Integers, Sequences, FiniteSets, TLC

VARIABLES
    currentSnapshot,   \* DeadlockApp.currentSnapshot: Null or <<snapshot>>
    currentWFG,        \* DeadlockApp.currentWFG: Null or <<wfg mapping>>
    currentCycles,     \* DeadlockApp.currentCycles: sequence of cycles
    graph,             \* the graph last handed to renderGraph: Null or <<graph>>
    graphType,         \* renderGraph's graphType: "none", "rag" or "wfg"
    nodeOpacity,       \* opacity of the circle of every node of graph, <<>>
                       \* when no element was created
    linkOpacity,       \* opacity of the line of every link of graph
    hovered,           \* the node under the pointer: Null or <<index in nodes>>
    savedSnapshots,    \* DeadlockApp.savedSnapshots
    snapshotSelect,    \* value of the selects snapshotA and snapshotB
    comparisonGraph,   \* the graph last handed to renderGraph by
                       \* comparisonGraphA and comparisonGraphB: Null or <<graph>>
    diffResults,       \* the differences rendered into diffResults: Null
                       \* before the first displayDifferences, else <<list>>
    diffArgs,          \* the select values of the pair last handed to
                       \* displayDifferences: Null or <<valueA, valueB>>
    viewMode,          \* the checked radio button viewMode: "RAG" or "WFG"
    pending,           \* the fetch requests in flight: [op, body], body the
                       \* snapshot posted or Null
    socket,            \* DeadlockApp.socket: Null or <<index in sockets>>
    sockets,           \* every socket io() has created: [open, connected,
                       \* started]
    loading,           \* the loading overlay is shown (not 'hidden')
    autoRefreshInterval, \* DeadlockApp.autoRefreshInterval: Null or <<timer>>
    timers             \* the interval timers set and not cleared

\* the elements renderGraph creates and the hover handlers style
hoverVars == <<nodeOpacity, linkOpacity, hovered>>

\* the state of the comparison mode
comparisonVars ==
    <<savedSnapshots, snapshotSelect, comparisonGraph, diffResults, diffArgs>>

\* the view mode, the requests and the sockets of the host controller
timerVars == <<autoRefreshInterval, timers>>

controllerVars == <<viewMode, pending, socket, sockets, loading, timerVars>>

vars == <<currentSnapshot, currentWFG, currentCycles, graph, graphType,
          hoverVars, comparisonVars, controllerVars>>

(***************************************************************************)
(* Bounds of the model.                                                    *)
(***************************************************************************)
MaxPid == 2        \* number of process ids
MaxCount == 1      \* allocation and request counts are 0..MaxCount
MaxEntries == 2    \* entries of allocation and request together, targets of
                   \* a wfg, pids of a cycle list

Null == <<>>

Some(o) == <<o>>

(***************************************************************************)
(* JavaScript strings and numbers.                                         *)
(***************************************************************************)
NaN == 0 - 1

\* the value of a destructured array element that does not exist
Undefined == <<"undefined">>

Digits == <<"0", "1", "2", "3", "4", "5", "6", "7", "8", "9">>

IsDigit(c) == \E i \in DOMAIN Digits : Digits[i] = c

DigitVal(c) == (CHOOSE i \in DOMAIN Digits : Digits[i] = c) - 1

\* String(n) of a non-negative integer or NaN, as a template literal prints it
RECURSIVE NumberToString(_)
NumberToString(n) ==
    IF n = NaN THEN <<"N", "a", "N">>
    ELSE IF n < Len(Digits) THEN <<Digits[n + 1]>>
    ELSE NumberToString(n \div Len(Digits)) \o <<Digits[(n % Len(Digits)) + 1]>>

\* `${v}` of a string or of undefined
TemplateString(v) ==
    IF v = Undefined THEN <<"u", "n", "d", "e", "f", "i", "n", "e", "d">> ELSE v

RECURSIVE ParseDigits(_, _)
ParseDigits(s, acc) ==
    IF s = <<>> \/ ~IsDigit(Head(s)) THEN acc
    ELSE ParseDigits(Tail(s), acc * Len(Digits) + DigitVal(Head(s)))

\* parseInt(s): the leading run of decimal digits, NaN when there is none
\* (the strings of the model carry no white space and no sign)
ParseInt(s) ==
    IF s = <<>> \/ ~IsDigit(Head(s)) THEN NaN ELSE ParseDigits(s, 0)

\* a !== b on numbers: NaN differs from everything, itself included
StrictNotEqual(a, b) == a = NaN \/ b = NaN \/ a # b

RECURSIVE SplitFrom(_, _)
SplitFrom(s, cur) ==
    IF s = <<>> THEN <<cur>>
    ELSE IF Head(s) = "_" THEN <<cur>> \o SplitFrom(Tail(s), <<>>)
    ELSE SplitFrom(Tail(s), Append(cur, Head(s)))

\* key.split('_'): every segment between separators
Split(s) == SplitFrom(s, <<>>)

\* const [pidStr, rid] = key.split('_'): the first two segments, the second
\* undefined when the key has no separator; later segments are dropped
KeyPidStr(key) == Split(key)[1]

KeyRid(key) == IF Len(Split(key)) >= 2 THEN Split(key)[2] ELSE Undefined

(***************************************************************************)
(* Sequence helpers (Array.prototype.forEach / push, Set insertion order). *)
(***************************************************************************)
Range(s) == {s[i] : i \in DOMAIN s}

RECURSIVE Flatten(_)
Flatten(ss) == IF ss = <<>> THEN <<>> ELSE Head(ss) \o Flatten(Tail(ss))

\* new Set() filled by add() in the order of s: first occurrences, in order
RECURSIVE SetOrder(_)
SetOrder(s) ==
    IF s = <<>> THEN <<>>
    ELSE LET front == SetOrder(SubSeq(s, 1, Len(s) - 1))
             last == s[Len(s)]
         IN IF last \in Range(front) THEN front ELSE Append(front, last)

\* { ...base, ...obj }: the fields of obj win over those of base
Spread(base, obj) ==
    [f \in DOMAIN base \cup DOMAIN obj |->
        IF f \in DOMAIN obj THEN obj[f] ELSE base[f]]

(***************************************************************************)
(* GraphVisualization.buildRAGGraph                                        *)
(***************************************************************************)
ProcessNode(process) ==
    Spread([id |-> <<"P">> \o NumberToString(process.pid),
            name |-> <<"P">> \o NumberToString(process.pid),
            type |-> "process",
            pid |-> process.pid],
           process)

ResourceNode(entry) ==
    Spread([id |-> <<"R">> \o entry.key,
            name |-> <<"R">> \o entry.key,
            type |-> "resource",
            rid |-> entry.key,
            total |-> entry.value.total],
           entry.value)

AllocationLink(entry) ==
    [source |-> <<"P">> \o KeyPidStr(entry.key),
     target |-> <<"R">> \o TemplateString(KeyRid(entry.key)),
     type |-> "allocation",
     weight |-> entry.value,
     id |-> <<"a", "l", "l", "o", "c", "_">> \o entry.key]

RequestLink(entry) ==
    [source |-> <<"R">> \o TemplateString(KeyRid(entry.key)),
     target |-> <<"P">> \o KeyPidStr(entry.key),
     type |-> "request",
     weight |-> entry.value,
     id |-> <<"r", "e", "q", "_">> \o entry.key]

Positive(entry) == entry.value > 0

\* the entries with a count > 0, in order
PositiveEntries(m) == SelectSeq(m, Positive)

\* buildRAGGraph with a slip: a process node is also pushed for every
\* allocation entry
buildRAGGraphKeyNodes(snapshot) ==
    [nodes |-> [i \in DOMAIN snapshot.processes |->
                  ProcessNode(snapshot.processes[i])]
               \o [i \in DOMAIN snapshot.resources |->
                     ResourceNode(snapshot.resources[i])]
               \o [i \in DOMAIN snapshot.allocation |->
                     [id |-> <<"P">> \o KeyPidStr(snapshot.allocation[i].key),
                      name |-> <<"P">> \o KeyPidStr(snapshot.allocation[i].key),
                      type |-> "process",
                      pid |-> ParseInt(KeyPidStr(snapshot.allocation[i].key))]],
     links |-> [i \in DOMAIN PositiveEntries(snapshot.allocation) |->
                  AllocationLink(PositiveEntries(snapshot.allocation)[i])]
               \o [i \in DOMAIN PositiveEntries(snapshot.request) |->
                     RequestLink(PositiveEntries(snapshot.request)[i])]]

buildRAGGraph(snapshot) ==
    [nodes |-> [i \in DOMAIN snapshot.processes |->
                  ProcessNode(snapshot.processes[i])]
               \o [i \in DOMAIN snapshot.resources |->
                     ResourceNode(snapshot.resources[i])],
     links |-> [i \in DOMAIN PositiveEntries(snapshot.allocation) |->
                  AllocationLink(PositiveEntries(snapshot.allocation)[i])]
               \o [i \in DOMAIN PositiveEntries(snapshot.request) |->
                     RequestLink(PositiveEntries(snapshot.request)[i])]]

(***************************************************************************)
(* GraphVisualization.buildWFGGraph                                        *)
(***************************************************************************)
\* cycleNodes with a slip: only the first cycle is collected
CycleNodesFirstCycle(cycles) ==
    IF cycles = <<>> THEN {} ELSE Range(cycles[1])

\* cycleNodes: the pids of all cycles
CycleNodes(cycles) == UNION {Range(cycles[i]) : i \in DOMAIN cycles}

\* allPids with a slip: an array instead of a Set, every pid pushed as often
\* as it occurs
AllPidsArray(wfg) ==
    Flatten([i \in DOMAIN wfg |-> <<ParseInt(wfg[i].key)>> \o wfg[i].value])

\* allPids: per key, parseInt(key) and then its targets, added to a Set
AllPids(wfg) ==
    SetOrder(Flatten([i \in DOMAIN wfg |->
                        <<ParseInt(wfg[i].key)>> \o wfg[i].value]))

WFGNode(pid, cycles) ==
    [id |-> <<"P">> \o NumberToString(pid),
     name |-> <<"P">> \o NumberToString(pid),
     type |-> "process",
     pid |-> pid,
     inCycle |-> pid \in CycleNodes(cycles)]

WaitForLink(srcPid, targetPid) ==
    [source |-> <<"P">> \o srcPid,
     target |-> <<"P">> \o NumberToString(targetPid),
     type |-> "wait-for",
     id |-> <<"w", "f", "g", "_">> \o srcPid \o <<"_">>
            \o NumberToString(targetPid)]

buildWFGGraph(wfg, cycles) ==
    [nodes |-> [i \in DOMAIN AllPids(wfg) |-> WFGNode(AllPids(wfg)[i], cycles)],
     links |-> Flatten([i \in DOMAIN wfg |->
                          [j \in DOMAIN wfg[i].value |->
                              WaitForLink(wfg[i].key, wfg[i].value[j])]])]

(***************************************************************************)
(* GraphVisualization.renderGraph and its hover handlers.                  *)
(*                                                                         *)
(* d3.forceLink(links).id(d => d.id) replaces source and target of every   *)
(* link by the node that has this id and throws when no node has it;       *)
(* renderGraph has then removed the previous elements and created none.    *)
(* Otherwise one circle per node and one line per link exist, at opacity   *)
(* 1.  (The text labels are styled by the same tests as the circles and    *)
(* lines and are left out.)                                                *)
(***************************************************************************)
Opaque == "1"

Dimmed == "0.3"

LinksResolve(g) ==
    \A k \in DOMAIN g.links :
        /\ \E i \in DOMAIN g.nodes : g.nodes[i].id = g.links[k].source
        /\ \E i \in DOMAIN g.nodes : g.nodes[i].id = g.links[k].target

renderGraph(g, type) ==
    /\ graph' = Some(g)
    /\ graphType' = type
    /\ nodeOpacity' = IF LinksResolve(g)
                      THEN [i \in DOMAIN g.nodes |-> Opaque] ELSE <<>>
    /\ linkOpacity' = IF LinksResolve(g)
                      THEN [k \in DOMAIN g.links |-> Opaque] ELSE <<>>
    /\ hovered' = Null

\* connectedLinks with a slip: only the links that leave d
ConnectedLinksFromSource(g, d) ==
    LET Leaves(link) == link.source = d.id
    IN SelectSeq(g.links, Leaves)

\* connectedLinks: the links with link.source.id === d.id or
\* link.target.id === d.id, in order
ConnectedLinks(g, d) ==
    LET Touches(link) == link.source = d.id \/ link.target = d.id
    IN SelectSeq(g.links, Touches)

\* connectedNodes: the ids of both ends of every connected link
ConnectedNodes(g, d) ==
    {ConnectedLinks(g, d)[c].source : c \in DOMAIN ConnectedLinks(g, d)}
    \cup {ConnectedLinks(g, d)[c].target : c \in DOMAIN ConnectedLinks(g, d)}

\* "mouseover" on the circle of nodes[i]: everything is dimmed, then the
\* elements whose id is in connectedNodes / connectedLinks are set to 1
mouseover(i) ==
    /\ i \in DOMAIN nodeOpacity
    /\ LET g == graph[1]
           d == g.nodes[i]
       IN /\ nodeOpacity' =
                [j \in DOMAIN g.nodes |->
                    IF g.nodes[j].id \in ConnectedNodes(g, d)
                    THEN Opaque ELSE Dimmed]
          /\ linkOpacity' =
                [k \in DOMAIN g.links |->
                    IF \E c \in DOMAIN ConnectedLinks(g, d) :
                          ConnectedLinks(g, d)[c].id = g.links[k].id
                    THEN Opaque ELSE Dimmed]
    /\ hovered' = Some(i)
    /\ UNCHANGED <<currentSnapshot, currentWFG, currentCycles, graph, graphType,
                   comparisonVars, controllerVars>>

\* "mouseout": every element back to 1
mouseout ==
    /\ hovered # Null
    /\ nodeOpacity' = [j \in DOMAIN nodeOpacity |-> Opaque]
    /\ linkOpacity' = [k \in DOMAIN linkOpacity |-> Opaque]
    /\ hovered' = Null
    /\ UNCHANGED <<currentSnapshot, currentWFG, currentCycles, graph, graphType,
                   comparisonVars, controllerVars>>

(***************************************************************************)
(* GraphVisualization.renderWFG: build the graph and hand it to            *)
(* renderGraph.  DeadlockApp calls it with currentWFG and currentCycles,   *)
(* and only when currentWFG is set.                                       *)
(***************************************************************************)
renderWFG ==
    /\ currentWFG # Null
    /\ renderGraph(buildWFGGraph(currentWFG[1], currentCycles), "wfg")
    /\ UNCHANGED <<currentSnapshot, currentWFG, currentCycles, comparisonVars,
                   controllerVars>>

(***************************************************************************)
(* DeadlockApp.buildWFGFromSnapshot                                        *)
(***************************************************************************)
\* a property key that is a canonical array index ("0", "1", "12", ...):
\* Object.entries lists these first, in ascending order
IsIndexKey(key) ==
    ParseInt(key) # NaN /\ NumberToString(ParseInt(key)) = key

\* the position at which a new key enters the entries of obj
InsertAt(obj, key) ==
    IF IsIndexKey(key)
    THEN 1 + Cardinality({i \in DOMAIN obj :
                            /\ IsIndexKey(obj[i].key)
                            /\ ParseInt(obj[i].key) < ParseInt(key)})
    ELSE Len(obj) + 1

\* if (!edges[pid]) edges[pid] = []; edges[pid].push(...blockers)
PushBlockers(edges, pid, blockers) ==
    LET key == NumberToString(pid)
    IN IF \E i \in DOMAIN edges : edges[i].key = key
       THEN [i \in DOMAIN edges |->
               IF edges[i].key = key
               THEN [key |-> key, value |-> edges[i].value \o blockers]
               ELSE edges[i]]
       ELSE SubSeq(edges, 1, InsertAt(edges, key) - 1)
            \o <<[key |-> key, value |-> blockers]>>
            \o SubSeq(edges, InsertAt(edges, key), Len(edges))

\* the inner loop: the holders of rid other than pid, in allocation order
Blockers(allocations, pid, rid) ==
    LET Blocks(entry) ==
            /\ KeyRid(entry.key) = rid
            /\ entry.value > 0
            /\ StrictNotEqual(ParseInt(KeyPidStr(entry.key)), pid)
        holders == SelectSeq(allocations, Blocks)
    IN [i \in DOMAIN holders |-> ParseInt(KeyPidStr(holders[i].key))]

\* the outer loop over the entries of request
RECURSIVE DeriveEdges(_, _, _)
DeriveEdges(requests, allocations, edges) ==
    IF requests = <<>> THEN edges
    ELSE LET key == Head(requests).key
             need == Head(requests).value
             pid == ParseInt(KeyPidStr(key))
             blockers == Blockers(allocations, pid, KeyRid(key))
         IN IF need <= 0 \/ blockers = <<>>
            THEN DeriveEdges(Tail(requests), allocations, edges)
            ELSE DeriveEdges(Tail(requests), allocations,
                             PushBlockers(edges, pid, blockers))

\* the total of resource rid, 0 when resources has no such entry
ResourceTotal(resources, rid) ==
    IF \E i \in DOMAIN resources : resources[i].key = rid
    THEN (CHOOSE e \in Range(resources) : e.key = rid).value.total
    ELSE 0

\* the derivation with a slip: a request counts only when the total of its
\* resource leaves no unit over
DerivedWFGNoFreeUnits(snapshot) ==
    LET Short(entry) ==
            ResourceTotal(snapshot.resources, KeyRid(entry.key)) <= entry.value
    IN DeriveEdges(SelectSeq(snapshot.request, Short), snapshot.allocation, <<>>)

\* the edges object that buildWFGFromSnapshot stores for a snapshot: it reads
\* snapshot.request and snapshot.allocation and nothing else
DerivedWFG(snapshot) ==
    DeriveEdges(snapshot.request, snapshot.allocation, <<>>)

buildWFGFromSnapshot ==
    IF currentSnapshot = Null
    THEN UNCHANGED vars
    ELSE /\ currentWFG' = Some(DerivedWFG(currentSnapshot[1]))
         /\ UNCHANGED <<currentSnapshot, currentCycles, graph, graphType,
                        hoverVars, comparisonVars, controllerVars>>

(***************************************************************************)
(* GraphVisualization.renderRAG: build the graph and hand it to            *)
(* renderGraph.                                                            *)
(***************************************************************************)
renderRAG ==
    /\ currentSnapshot # Null
    /\ renderGraph(buildRAGGraph(currentSnapshot[1]), "rag")
    /\ UNCHANGED <<currentSnapshot, currentWFG, currentCycles, comparisonVars,
                   controllerVars>>

(***************************************************************************)
(* DeadlockApp.displayDifferences                                          *)
(***************************************************************************)
\* String(n) of an integer that may be negative
SignedToString(n) ==
    IF n < 0 THEN <<"-">> \o NumberToString(0 - n) ELSE NumberToString(n)

ProcessText ==
    <<"P", "r", "o", "c", "e", "s", "s", " ", "P">>

WasAddedText ==
    <<" ", "w", "a", "s", " ", "a", "d", "d", "e", "d">>

WasRemovedText ==
    <<" ", "w", "a", "s", " ", "r", "e", "m", "o", "v", "e", "d">>

CyclesText ==
    <<"D", "e", "a", "d", "l", "o", "c", "k", " ", "c", "y", "c", "l", "e",
      "s", " ", "c", "h", "a", "n", "g", "e", "d", " ", "f", "r", "o", "m",
      " ">>

AllocationsText ==
    <<"R", "e", "s", "o", "u", "r", "c", "e", " ", "a", "l", "l", "o", "c",
      "a", "t", "i", "o", "n", "s", " ", "c", "h", "a", "n", "g", "e", "d",
      " ", "f", "r", "o", "m", " ">>

RequestsText ==
    <<"R", "e", "s", "o", "u", "r", "c", "e", " ", "r", "e", "q", "u", "e",
      "s", "t", "s", " ", "c", "h", "a", "n", "g", "e", "d", " ", "f", "r",
      "o", "m", " ">>

ToText == <<" ", "t", "o", " ">>

\* new Set(snapshot.data.processes.map(p => p.pid))
ProcessSet(snapshot) ==
    SetOrder([i \in DOMAIN snapshot.data.processes |->
                 snapshot.data.processes[i].pid])

AddedEntry(pid) ==
    [type |-> "added", icon |-> "fas fa-plus-circle",
     text |-> ProcessText \o NumberToString(pid) \o WasAddedText]

RemovedEntry(pid) ==
    [type |-> "removed", icon |-> "fas fa-minus-circle",
     text |-> ProcessText \o NumberToString(pid) \o WasRemovedText]

\* processesB.forEach: the pids of B that A has not
ProcessAdditions(snapshotA, snapshotB) ==
    LET New(pid) == pid \notin Range(ProcessSet(snapshotA))
        pids == SelectSeq(ProcessSet(snapshotB), New)
    IN [i \in DOMAIN pids |-> AddedEntry(pids[i])]

\* processesA.forEach: the pids of A that B has not
ProcessRemovals(snapshotA, snapshotB) ==
    LET Gone(pid) == pid \notin Range(ProcessSet(snapshotB))
        pids == SelectSeq(ProcessSet(snapshotA), Gone)
    IN [i \in DOMAIN pids |-> RemovedEntry(pids[i])]

\* the additions and removals with a slip: the process lists are walked
\* instead of the Sets, a pid listed twice is reported twice
ProcessChangesPerEntry(snapshotA, snapshotB) ==
    LET pidsA == [i \in DOMAIN snapshotA.data.processes |->
                     snapshotA.data.processes[i].pid]
        pidsB == [i \in DOMAIN snapshotB.data.processes |->
                     snapshotB.data.processes[i].pid]
        New(pid) == pid \notin Range(pidsA)
        Gone(pid) == pid \notin Range(pidsB)
    IN [i \in DOMAIN SelectSeq(pidsB, New) |->
            AddedEntry(SelectSeq(pidsB, New)[i])]
       \o [i \in DOMAIN SelectSeq(pidsA, Gone) |->
               RemovedEntry(SelectSeq(pidsA, Gone)[i])]

\* the entry for the number of cycles, with change = cyclesB - cyclesA
CycleChange(snapshotA, snapshotB) ==
    LET cyclesA == Len(snapshotA.cycles)
        cyclesB == Len(snapshotB.cycles)
        change == cyclesB - cyclesA
    IN IF cyclesA # cyclesB
       THEN <<[type |-> IF change > 0 THEN "removed" ELSE "added",
               icon |-> IF change > 0 THEN "fas fa-exclamation-triangle"
                        ELSE "fas fa-check-circle",
               text |-> CyclesText \o NumberToString(cyclesA) \o ToText
                        \o NumberToString(cyclesB) \o <<" ", "(">>
                        \o (IF change > 0 THEN <<"+">> ELSE <<>>)
                        \o SignedToString(change) \o <<")">>]>>
       ELSE <<>>

\* the entry for Object.keys(allocation).length
AllocationChange(snapshotA, snapshotB) ==
    LET allocA == Len(snapshotA.data.allocation)
        allocB == Len(snapshotB.data.allocation)
    IN IF allocA # allocB
       THEN <<[type |-> "changed", icon |-> "fas fa-exchange-alt",
               text |-> AllocationsText \o NumberToString(allocA) \o ToText
                        \o NumberToString(allocB)]>>
       ELSE <<>>

\* the allocation entry with a slip: the mappings themselves are compared
AllocationChangeByValue(snapshotA, snapshotB) ==
    LET allocA == Len(snapshotA.data.allocation)
        allocB == Len(snapshotB.data.allocation)
    IN IF snapshotA.data.allocation # snapshotB.data.allocation
       THEN <<[type |-> "changed", icon |-> "fas fa-exchange-alt",
               text |-> AllocationsText \o NumberToString(allocA) \o ToText
                        \o NumberToString(allocB)]>>
       ELSE <<>>

\* the entry for Object.keys(request).length
RequestChange(snapshotA, snapshotB) ==
    LET reqA == Len(snapshotA.data.request)
        reqB == Len(snapshotB.data.request)
    IN IF reqA # reqB
       THEN <<[type |-> "changed", icon |-> "fas fa-exchange-alt",
               text |-> RequestsText \o NumberToString(reqA) \o ToText
                        \o NumberToString(reqB)]>>
       ELSE <<>>

\* displayDifferences with a slip: the removals are pushed before the
\* additions
displayDifferencesRemovalsFirst(snapshotA, snapshotB) ==
    ProcessRemovals(snapshotA, snapshotB)
    \o ProcessAdditions(snapshotA, snapshotB)
    \o CycleChange(snapshotA, snapshotB)
    \o AllocationChange(snapshotA, snapshotB)
    \o RequestChange(snapshotA, snapshotB)

\* displayDifferences with a slip: process entries per list entry
displayDifferencesPerEntry(snapshotA, snapshotB) ==
    ProcessChangesPerEntry(snapshotA, snapshotB)
    \o CycleChange(snapshotA, snapshotB)
    \o AllocationChange(snapshotA, snapshotB)
    \o RequestChange(snapshotA, snapshotB)

\* displayDifferences with a slip: the requests are not compared
displayDifferencesNoRequests(snapshotA, snapshotB) ==
    ProcessAdditions(snapshotA, snapshotB)
    \o ProcessRemovals(snapshotA, snapshotB)
    \o CycleChange(snapshotA, snapshotB)
    \o AllocationChange(snapshotA, snapshotB)

\* displayDifferences with a slip: allocations compared by value
displayDifferencesByValue(snapshotA, snapshotB) ==
    ProcessAdditions(snapshotA, snapshotB)
    \o ProcessRemovals(snapshotA, snapshotB)
    \o CycleChange(snapshotA, snapshotB)
    \o AllocationChangeByValue(snapshotA, snapshotB)
    \o RequestChange(snapshotA, snapshotB)

\* the array `differences` that displayDifferences renders
displayDifferences(snapshotA, snapshotB) ==
    ProcessAdditions(snapshotA, snapshotB)
    \o ProcessRemovals(snapshotA, snapshotB)
    \o CycleChange(snapshotA, snapshotB)
    \o AllocationChange(snapshotA, snapshotB)
    \o RequestChange(snapshotA, snapshotB)

(***************************************************************************)
(* DeadlockApp.loadComparisonSnapshot: the "change" handler of the selects *)
(* snapshotA and snapshotB.  updateComparisonDropdowns gives each select   *)
(* the option "" and one option per saved snapshot, with its id as value;  *)
(* openComparisonMode has created comparisonGraphA and comparisonGraphB.   *)
(***************************************************************************)
Sides == {"A", "B"}

OptionValues ==
    {<<>>} \cup {NumberToString(savedSnapshots[i].id) : i \in DOMAIN savedSnapshots}

\* savedSnapshots.find(s => s.id == value): the first saved snapshot whose
\* id equals the number the value reads as, Null when there is none
Find(saved, value) ==
    LET hits == {i \in DOMAIN saved : saved[i].id = ParseInt(value)}
    IN IF hits = {} THEN Null
       ELSE Some(saved[CHOOSE i \in hits : \A j \in hits : i <= j])

\* the handler with a slip: displayDifferences takes the processes out of
\* snapshot A while it walks them (shift() on the saved list itself)
loadComparisonSnapshotConsuming(side, snapshotId) ==
    /\ snapshotId \in OptionValues
    /\ snapshotId # snapshotSelect[side]
    /\ snapshotSelect' = [snapshotSelect EXCEPT ![side] = snapshotId]
    /\ IF snapshotId = <<>> \/ Find(savedSnapshots, snapshotId) = Null
       THEN UNCHANGED <<comparisonGraph, diffResults, diffArgs, savedSnapshots>>
       ELSE LET g == buildRAGGraph(Find(savedSnapshots, snapshotId)[1].data)
                both == /\ LinksResolve(g)
                        /\ snapshotSelect'.A # <<>>
                        /\ snapshotSelect'.B # <<>>
                snapshotA == Find(savedSnapshots, snapshotSelect'.A)[1]
                snapshotB == Find(savedSnapshots, snapshotSelect'.B)[1]
            IN /\ comparisonGraph' = [comparisonGraph EXCEPT ![side] = Some(g)]
               /\ IF both
                  THEN /\ diffResults' =
                            Some(displayDifferences(snapshotA, snapshotB))
                       /\ diffArgs' = <<snapshotSelect'.A, snapshotSelect'.B>>
                       /\ savedSnapshots' =
                            [i \in DOMAIN savedSnapshots |->
                                IF savedSnapshots[i].id = snapshotA.id
                                THEN [savedSnapshots[i] EXCEPT
                                         !.data.processes = <<>>]
                                ELSE savedSnapshots[i]]
                  ELSE UNCHANGED <<diffResults, diffArgs, savedSnapshots>>
    /\ UNCHANGED <<currentSnapshot, currentWFG, currentCycles, graph, graphType,
                   hoverVars, controllerVars>>

loadComparisonSnapshot(side, snapshotId) ==
    /\ snapshotId \in OptionValues
    /\ snapshotId # snapshotSelect[side]
    /\ snapshotSelect' = [snapshotSelect EXCEPT ![side] = snapshotId]
    /\ IF snapshotId = <<>> \/ Find(savedSnapshots, snapshotId) = Null
       THEN UNCHANGED <<comparisonGraph, diffResults, diffArgs>>
       ELSE LET g == buildRAGGraph(Find(savedSnapshots, snapshotId)[1].data)
                \* renderGraph throws on a link that resolves to no node
                \* and the handler ends there
                both == /\ LinksResolve(g)
                        /\ snapshotSelect'.A # <<>>
                        /\ snapshotSelect'.B # <<>>
                snapshotA == Find(savedSnapshots, snapshotSelect'.A)[1]
                snapshotB == Find(savedSnapshots, snapshotSelect'.B)[1]
            IN /\ comparisonGraph' = [comparisonGraph EXCEPT ![side] = Some(g)]
               /\ IF both
                  THEN /\ diffResults' =
                            Some(displayDifferences(snapshotA, snapshotB))
                       /\ diffArgs' = <<snapshotSelect'.A, snapshotSelect'.B>>
                  ELSE UNCHANGED <<diffResults, diffArgs>>
    /\ UNCHANGED savedSnapshots
    /\ UNCHANGED <<currentSnapshot, currentWFG, currentCycles, graph, graphType,
                   hoverVars, controllerVars>>

(***************************************************************************)
(* Snapshots received from the service (spec.md, section 3 and 6).         *)
(***************************************************************************)
\* the process ids: 1, then ids of two digits, so that the conversions
\* between numbers and strings meet more than one digit
PidList == [i \in 1..MaxPid |-> IF i = 1 THEN 1 ELSE 8 + i]

Pids == Range(PidList)

Counts == 0..MaxCount

\* resource ids; the last one carries the separator itself
RIdList == << <<"A">>, <<"B">>, <<"A", "_", "B">> >>

\* the composite key "<pid>_<rid>"
MakeKey(pid, rid) == NumberToString(pid) \o <<"_">> \o rid

\* the keys of allocation and request, in the order Object.entries lists
\* them: "1", a key without separator; "1_A_B", whose resource id holds a
\* separator; then "<pid>_A" and "<pid>_B" for every pid
KeyList ==
    <<NumberToString(1), MakeKey(1, RIdList[3])>>
    \o [i \in 1..(MaxPid * 2) |->
          MakeKey(PidList[((i - 1) \div 2) + 1], RIdList[((i - 1) % 2) + 1])]

RECURSIVE Ascending(_)
Ascending(S) ==
    IF S = {} THEN <<>>
    ELSE LET m == CHOOSE x \in S : \A y \in S : x <= y
         IN <<m>> \o Ascending(S \ {m})

\* the mapping with the keys numbered S and the counts c
MappingOf(S, c) ==
    [i \in 1..Cardinality(S) |->
        [key |-> KeyList[Ascending(S)[i]], value |-> c[Ascending(S)[i]]]]

\* the allocation or request mappings of at most n entries
Mappings(n) ==
    UNION {{MappingOf(S, c) : c \in [S -> Counts]} :
             S \in {T \in SUBSET DOMAIN KeyList : Cardinality(T) <= n}}

ProcessLists ==
    {[i \in 1..n |-> [pid |-> PidList[i]]] : n \in 0..MaxPid}
    \cup {<<[pid |-> 1], [pid |-> 1]>>,
          <<[pid |-> 1, state |-> "blocked"]>>,
          <<[pid |-> 1, type |-> "daemon"]>>,
          <<[pid |-> PidList[MaxPid], id |-> <<"P", "1">>]>>}

ResourceMaps ==
    {<<>>,
     <<[key |-> RIdList[1], value |-> [total |-> 1]]>>,
     [i \in DOMAIN RIdList |-> [key |-> RIdList[i], value |-> [total |-> i]]],
     <<[key |-> RIdList[1], value |-> [total |-> 1, type |-> "file"]]>>}

\* allocation and request, with at most MaxEntries entries together
MappingPairs ==
    UNION {{[allocation |-> al, request |-> rq] :
              rq \in Mappings(MaxEntries - Len(al))} :
             al \in Mappings(MaxEntries)}

\* before the first renderGraph: no element, nothing hovered
NothingRendered ==
    /\ nodeOpacity = <<>>
    /\ linkOpacity = <<>>
    /\ hovered = Null

\* no request in flight, no socket; the RAG radio button checked
ControllerIdle ==
    /\ viewMode = "RAG"
    /\ pending = {}
    /\ socket = Null
    /\ sockets = <<>>
    /\ loading = FALSE
    /\ autoRefreshInterval = Null
    /\ timers = {}

\* after construction: no saved snapshot, nothing selected or compared
NothingSaved ==
    /\ savedSnapshots = <<>>
    /\ snapshotSelect = [A |-> <<>>, B |-> <<>>]
    /\ comparisonGraph = [A |-> Null, B |-> Null]
    /\ diffResults = Null
    /\ diffArgs = Null

(***************************************************************************)
(* SpecRAG: buildRAGGraph applied to every snapshot of the bounded set.    *)
(***************************************************************************)
InitRAG ==
    /\ \E ps \in ProcessLists, rs \in ResourceMaps, m \in MappingPairs :
          currentSnapshot =
              Some([processes |-> ps, resources |-> rs,
                    allocation |-> m.allocation, request |-> m.request])
    /\ currentWFG = Null
    /\ currentCycles = <<>>
    /\ graph = Null
    /\ graphType = "none"
    /\ NothingRendered
    /\ NothingSaved
    /\ ControllerIdle

NextRAG == renderRAG

SpecRAG == InitRAG /\ [][NextRAG]_vars

(***************************************************************************)
(* Detection results received from the service: wfg maps a pid (as a key)  *)
(* to the list of pids it waits for, cycles is a list of lists of pids.    *)
(***************************************************************************)
\* the lists of at most n pids
PidLists(n) == UNION {[1..k -> Pids] : k \in 0..n}

RECURSIVE TotalLen(_)
TotalLen(ss) == IF ss = <<>> THEN 0 ELSE Len(Head(ss)) + TotalLen(Tail(ss))

\* the wfg with the keys S (ascending, as Object.entries lists index keys)
\* and the targets f
WFGOf(S, f) ==
    [i \in 1..Cardinality(S) |->
        [key |-> NumberToString(Ascending(S)[i]), value |-> f[Ascending(S)[i]]]]

\* the number of targets of a wfg
TotalTargets(wfg) == TotalLen([i \in DOMAIN wfg |-> wfg[i].value])

\* the wfg mappings with at most MaxEntries targets in all
WFGMappings ==
    UNION {{WFGOf(S, f) : f \in {g \in [S -> PidLists(MaxEntries)] :
                                   TotalTargets(WFGOf(S, g)) <= MaxEntries}} :
             S \in SUBSET Pids}

\* the cycle lists with at most MaxEntries pids in all
CycleLists ==
    UNION {{cs \in [1..k -> PidLists(MaxEntries) \ {<<>>}] :
              TotalLen(cs) <= MaxEntries} : k \in 0..MaxEntries}

(***************************************************************************)
(* SpecWFG: buildWFGGraph applied to every wfg and cycle list of the       *)
(* bounded sets.                                                           *)
(***************************************************************************)
InitWFG ==
    /\ currentSnapshot = Null
    /\ currentWFG \in {Some(w) : w \in WFGMappings}
    /\ currentCycles \in CycleLists
    /\ graph = Null
    /\ graphType = "none"
    /\ NothingRendered
    /\ NothingSaved
    /\ ControllerIdle

NextWFG == renderWFG

SpecWFG == InitWFG /\ [][NextWFG]_vars

(***************************************************************************)
(* SpecDerive: buildWFGFromSnapshot applied to every allocation and        *)
(* request of the bounded set, the derived WFG then rendered.              *)
(***************************************************************************)
InitDerive ==
    /\ \E m \in MappingPairs :
          currentSnapshot =
              Some([processes |-> [i \in 1..MaxPid |-> [pid |-> PidList[i]]],
                    resources |-> [i \in DOMAIN RIdList |->
                                     [key |-> RIdList[i],
                                      value |-> [total |-> i]]],
                    allocation |-> m.allocation, request |-> m.request])
    /\ currentWFG = Null
    /\ currentCycles = <<>>
    /\ graph = Null
    /\ graphType = "none"
    /\ NothingRendered
    /\ NothingSaved
    /\ ControllerIdle

NextDerive ==
    \/ buildWFGFromSnapshot
    \/ renderWFG

SpecDerive == InitDerive /\ [][NextDerive]_vars

(***************************************************************************)
(* SpecDeriveShared: buildWFGFromSnapshot applied to the snapshots in      *)
(* which the first two processes hold and request the first two resources  *)
(* in every combination, the derived WFG then rendered.                    *)
(***************************************************************************)
\* the keys of the first two processes for the first two resources
SharedKeys ==
    {i \in DOMAIN KeyList :
        \E p \in 1..2, k \in 1..2 : KeyList[i] = MakeKey(PidList[p], RIdList[k])}

\* the allocation or request mappings over these keys
SharedMappings ==
    UNION {{MappingOf(S, c) : c \in [S -> Counts]} : S \in SUBSET SharedKeys}

InitDeriveShared ==
    /\ \E al \in SharedMappings, rq \in SharedMappings :
          currentSnapshot =
              Some([processes |-> [i \in 1..MaxPid |-> [pid |-> PidList[i]]],
                    resources |-> [i \in DOMAIN RIdList |->
                                     [key |-> RIdList[i],
                                      value |-> [total |-> i]]],
                    allocation |-> al, request |-> rq])
    /\ currentWFG = Null
    /\ currentCycles = <<>>
    /\ graph = Null
    /\ graphType = "none"
    /\ NothingRendered
    /\ NothingSaved
    /\ ControllerIdle

SpecDeriveShared == InitDeriveShared /\ [][NextDerive]_vars

(***************************************************************************)
(* SpecHover: the hover handlers on every graph rendered from a snapshot   *)
(* or from a wfg of the bounded sets.                                      *)
(***************************************************************************)
InitHover == InitDerive \/ InitWFG

NextHover ==
    \/ renderRAG
    \/ renderWFG
    \/ \E i \in DOMAIN nodeOpacity : mouseover(i)
    \/ mouseout

SpecHover == InitHover /\ [][NextHover]_vars

(***************************************************************************)
(* Saved snapshots, as saveSnapshot records them.                          *)
(***************************************************************************)
SnapshotText ==
    <<"S", "n", "a", "p", "s", "h", "o", "t", " ">>

\* the n-th saved snapshot, saved at time t
SavedSnapshot(n, t, data, cycles, wfg) ==
    [id |-> t,
     name |-> SnapshotText \o NumberToString(n),
     timestamp |-> t,
     data |-> data,
     cycles |-> cycles,
     wfg |-> wfg]

\* process lists of the saved snapshots: none, the first pid twice, the
\* first two pids, the last pid alone
DiffProcessLists ==
    {ps \in ProcessLists :
        /\ Len(ps) \in {0, 2} \/ "id" \in DOMAIN ps[1]
        /\ Len(ps) = 2 => ps[2].pid \in {PidList[1], PidList[2]}}

\* allocation and request of the saved snapshots: no key, or one
\* allocation key of process 1 (the first resource with any count, or the
\* second resource), or the request of process 1 for the first resource
DiffMappingPairs ==
    {m \in MappingPairs :
        /\ Len(m.allocation) + Len(m.request) <= Len(<<"A">>)
        /\ \A e \in Range(m.allocation) :
              \/ e.key = MakeKey(PidList[1], RIdList[1])
              \/ /\ e.key = MakeKey(PidList[1], RIdList[2])
                 /\ e.value = MaxCount
        /\ \A e \in Range(m.request) :
              /\ e.key = MakeKey(PidList[1], RIdList[1])
              /\ e.value = MaxCount}

\* resources of the saved snapshots: every resource id, with its total
DiffResources ==
    [i \in DOMAIN RIdList |-> [key |-> RIdList[i], value |-> [total |-> i]]]

\* cycle lists of the saved snapshots: no cycle, or one
DiffCycleLists == {<<>>, <<PidList>>}

(***************************************************************************)
(* SpecDiff: the comparison of every pair of saved snapshots of the        *)
(* bounded sets, chosen in the two selects in any order.                   *)
(***************************************************************************)
InitDiff ==
    /\ currentSnapshot = Null
    /\ currentWFG = Null
    /\ currentCycles = <<>>
    /\ graph = Null
    /\ graphType = "none"
    /\ NothingRendered
    /\ \E psA \in DiffProcessLists, psB \in DiffProcessLists,
          mA \in DiffMappingPairs, mB \in DiffMappingPairs,
          csA \in DiffCycleLists, csB \in DiffCycleLists :
          savedSnapshots =
              <<SavedSnapshot(1, 1,
                              [processes |-> psA, resources |-> DiffResources,
                               allocation |-> mA.allocation,
                               request |-> mA.request],
                              csA, Null),
                SavedSnapshot(2, 2,
                              [processes |-> psB, resources |-> DiffResources,
                               allocation |-> mB.allocation,
                               request |-> mB.request],
                              csB, Null)>>
    /\ snapshotSelect = [A |-> <<>>, B |-> <<>>]
    /\ comparisonGraph = [A |-> Null, B |-> Null]
    /\ diffResults = Null
    /\ diffArgs = Null
    /\ ControllerIdle

NextDiff ==
    \E side \in Sides, snapshotId \in OptionValues :
        loadComparisonSnapshot(side, snapshotId)

SpecDiff == InitDiff /\ [][NextDiff]_vars

(***************************************************************************)
(* DeadlockApp, the host controller: the snapshot loads, predict, detect   *)
(* and recover as a request sent and its response handled, the view mode,  *)
(* refreshVisualization and the real-time socket.                          *)
(***************************************************************************)
MaxPending == 2    \* fetch requests in flight at once

MaxSockets == 2    \* sockets created by startRealtimeMonitoring

ViewModes == {"RAG", "WFG"}

\* a snapshot of the service with every process and resource listed
HostSnapshot(allocation, request) ==
    [processes |-> [i \in 1..MaxPid |-> [pid |-> PidList[i]]],
     resources |-> DiffResources,
     allocation |-> allocation,
     request |-> request]

\* the snapshots the service answers with: process 1 asks for the first
\* resource, which the second process holds or nobody holds
HostSnapshots ==
    {HostSnapshot(al, <<[key |-> MakeKey(PidList[1], RIdList[1]),
                         value |-> MaxCount]>>) :
        al \in {<<>>, <<[key |-> MakeKey(PidList[2], RIdList[1]),
                         value |-> MaxCount]>>}}

\* the answers of /api/detect: no edge and no cycle, or the first two
\* processes waiting for each other
DetectionResults ==
    {[wfg |-> <<>>, cycles |-> <<>>],
     [wfg |-> <<[key |-> NumberToString(PidList[1]), value |-> <<PidList[2]>>],
                [key |-> NumberToString(PidList[2]), value |-> <<PidList[1]>>]>>,
      cycles |-> <<SubSeq(PidList, 1, 2)>>]}

\* the operations that fetch a snapshot with GET
LoadOps == {"loadDemoSnapshot", "loadSystemSnapshot", "loadRealtimeSnapshot",
            "loadSimulation"}

\* the operations that fetch with GET: the loads and showAnalytics
GetOps == LoadOps \cup {"showAnalytics"}

\* the operations that POST the current snapshot
PostOps == {"predict", "predictML", "detect", "recover"}

\* refreshVisualization with a slip: in WFG view the wfg is derived from the
\* snapshot whenever there is one
refreshVisualizationAlwaysDerive(selectedMode, snapshot, wfg, cycles) ==
    IF selectedMode = "RAG" /\ snapshot # Null
    THEN /\ renderGraph(buildRAGGraph(snapshot[1]), "rag")
         /\ currentWFG' = wfg
    ELSE IF selectedMode = "WFG" /\ snapshot # Null
    THEN /\ currentWFG' = Some(DerivedWFG(snapshot[1]))
         /\ renderGraph(buildWFGGraph(DerivedWFG(snapshot[1]), cycles), "wfg")
    ELSE IF selectedMode = "WFG" /\ wfg # Null
    THEN /\ renderGraph(buildWFGGraph(wfg[1], cycles), "wfg")
         /\ currentWFG' = wfg
    ELSE /\ currentWFG' = wfg
         /\ UNCHANGED <<graph, graphType, hoverVars>>

\* refreshVisualization with the view mode, snapshot, wfg and cycles its
\* caller has just set: it assigns currentWFG and the rendered graph
refreshVisualization(selectedMode, snapshot, wfg, cycles) ==
    IF selectedMode = "RAG" /\ snapshot # Null
    THEN /\ renderGraph(buildRAGGraph(snapshot[1]), "rag")
         /\ currentWFG' = wfg
    ELSE IF selectedMode = "WFG" /\ wfg # Null
    THEN /\ renderGraph(buildWFGGraph(wfg[1], cycles), "wfg")
         /\ currentWFG' = wfg
    ELSE IF selectedMode = "WFG" /\ snapshot # Null
    THEN /\ currentWFG' = Some(DerivedWFG(snapshot[1]))
         /\ renderGraph(buildWFGGraph(DerivedWFG(snapshot[1]), cycles), "wfg")
    ELSE /\ currentWFG' = wfg
         /\ UNCHANGED <<graph, graphType, hoverVars>>

\* the user checks the radio button mode; its change handler runs
switchViewMode(mode) ==
    /\ mode # viewMode
    /\ viewMode' = mode
    /\ refreshVisualization(mode, currentSnapshot, currentWFG, currentCycles)
    /\ UNCHANGED <<currentSnapshot, currentCycles, comparisonVars, pending,
                   socket, sockets, loading, timerVars>>

\* showLoading, then fetch(...): the overlay is shown, the request leaves,
\* the handler waits for the response
Fetch(op, body) ==
    /\ Cardinality(pending) < MaxPending
    /\ [op |-> op, body |-> body] \notin pending
    /\ loading' = TRUE
    /\ pending' = pending \cup {[op |-> op, body |-> body]}
    /\ UNCHANGED <<currentSnapshot, currentWFG, currentCycles, graph,
                   graphType, hoverVars, comparisonVars, viewMode, socket,
                   sockets, timerVars>>

\* loadDemoSnapshot, loadSystemSnapshot, loadRealtimeSnapshot,
\* loadSimulation and showAnalytics up to their fetch
load(op) == Fetch(op, Null)

\* the same without the test of currentSnapshot
postUnguarded(op) == Fetch(op, currentSnapshot)

\* predict, predictML, detect and recover up to their fetch
post(op) ==
    IF currentSnapshot = Null
    THEN UNCHANGED vars
    ELSE Fetch(op, currentSnapshot)

\* the response of a load carries a snapshot (loadDemoSnapshot does not
\* test data.error: its response is taken to be a snapshot)
loadResponse(r, data) ==
    /\ r.op \in LoadOps
    /\ pending' = pending \ {r}
    /\ loading' = FALSE
    /\ currentSnapshot' = Some(data)
    /\ refreshVisualization(viewMode, Some(data), currentWFG, currentCycles)
    /\ UNCHANGED <<currentCycles, comparisonVars, viewMode, socket, sockets,
                   timerVars>>

\* the response of /api/predict carries no error
predictResponse(r) ==
    /\ r.op = "predict"
    /\ pending' = pending \ {r}
    /\ loading' = FALSE
    /\ refreshVisualization(viewMode, currentSnapshot, currentWFG,
                            currentCycles)
    /\ UNCHANGED <<currentSnapshot, currentCycles, comparisonVars, viewMode,
                   socket, sockets, timerVars>>

\* the response of /api/detect carries wfg and cycles
detectResponse(r, result) ==
    /\ r.op = "detect"
    /\ pending' = pending \ {r}
    /\ loading' = FALSE
    /\ currentCycles' = result.cycles
    /\ IF viewMode # "WFG"
       THEN /\ viewMode' = "WFG"
            /\ refreshVisualization("WFG", currentSnapshot, Some(result.wfg),
                                    result.cycles)
       ELSE /\ currentWFG' = Some(result.wfg)
            /\ UNCHANGED <<viewMode, graph, graphType, hoverVars>>
    /\ UNCHANGED <<currentSnapshot, comparisonVars, socket, sockets,
                   timerVars>>

\* the response of /api/recover carries new_snapshot
recoverResponse(r, data) ==
    /\ r.op = "recover"
    /\ pending' = pending \ {r}
    /\ loading' = FALSE
    /\ currentSnapshot' = Some(data)
    /\ refreshVisualization(viewMode, Some(data), currentWFG, currentCycles)
    /\ UNCHANGED <<currentCycles, comparisonVars, viewMode, socket, sockets,
                   timerVars>>

\* the response of /api/predict-ml or of /api/analytics/trends carries no
\* error: mlPrediction, the probability display and the analytics modal are
\* not part of the state modelled
otherResponse(r) ==
    /\ r.op \in {"predictML", "showAnalytics"}
    /\ pending' = pending \ {r}
    /\ loading' = FALSE
    /\ UNCHANGED <<currentSnapshot, currentWFG, currentCycles, graph,
                   graphType, hoverVars, comparisonVars, viewMode, socket,
                   sockets, timerVars>>

\* the failure handling with a slip: the snapshot is reset
requestFailsClearing(r) ==
    /\ pending' = pending \ {r}
    /\ loading' = FALSE
    /\ currentSnapshot' = Null
    /\ UNCHANGED <<currentWFG, currentCycles, graph, graphType, hoverVars,
                   comparisonVars, viewMode, socket, sockets, timerVars>>

\* fetch rejects, or the response carries an error that the handler tests
\* for: the catch block shows a toast, the finally block hides the overlay
requestFails(r) ==
    /\ pending' = pending \ {r}
    /\ loading' = FALSE
    /\ UNCHANGED <<currentSnapshot, currentWFG, currentCycles, graph,
                   graphType, hoverVars, comparisonVars, viewMode, socket,
                   sockets, timerVars>>

\* the click handler of toggleRealtimeBtn; startRealtimeMonitoring calls io()
toggleRealtimeMonitoring ==
    /\ IF socket # Null /\ sockets[socket[1]].connected
       THEN /\ sockets' = [sockets EXCEPT ![socket[1]] =
                              [open |-> FALSE, connected |-> FALSE,
                               started |-> sockets[socket[1]].started]]
            /\ socket' = Null
       ELSE /\ Len(sockets) < MaxSockets
            /\ sockets' = Append(sockets, [open |-> TRUE, connected |-> FALSE,
                                           started |-> FALSE])
            /\ socket' = Some(Len(sockets) + 1)
    /\ UNCHANGED <<currentSnapshot, currentWFG, currentCycles, graph,
                   graphType, hoverVars, comparisonVars, viewMode, pending,
                   loading, timerVars>>

\* socket i connects; its 'connect' handler emits start_monitoring on
\* this.socket, and throws when this.socket is null
connect(i) ==
    /\ sockets[i].open
    /\ ~sockets[i].connected
    /\ sockets' = [k \in DOMAIN sockets |->
                      [open |-> sockets[k].open,
                       connected |-> sockets[k].connected \/ k = i,
                       started |-> sockets[k].started \/ socket = Some(k)]]
    /\ UNCHANGED <<currentSnapshot, currentWFG, currentCycles, graph,
                   graphType, hoverVars, comparisonVars, viewMode, pending,
                   socket, loading, timerVars>>

\* the 'system_update' handler of socket i, which has asked for monitoring
system_update(i, snapshot, cycles) ==
    /\ sockets[i].connected
    /\ sockets[i].started
    /\ currentSnapshot' = Some(snapshot)
    /\ currentCycles' = cycles
    /\ refreshVisualization(viewMode, Some(snapshot), currentWFG, cycles)
    /\ UNCHANGED <<comparisonVars, controllerVars>>

\* setInterval returns a handle that no active timer has
NewTimer == CHOOSE t \in 1..(Cardinality(timers) + 1) : t \notin timers

\* toggleAutoRefresh with a slip: the interval held is not cleared
toggleAutoRefreshNoClear(enabled) ==
    /\ IF enabled
       THEN /\ timers' = timers \cup {NewTimer}
            /\ autoRefreshInterval' = Some(NewTimer)
       ELSE /\ timers' = timers
            /\ autoRefreshInterval' = Null
    /\ UNCHANGED <<currentSnapshot, currentWFG, currentCycles, graph,
                   graphType, hoverVars, comparisonVars, viewMode, pending,
                   socket, sockets, loading>>

\* the change handler of autoRefreshCheck: clearInterval on the interval
\* held, then setInterval when enabled
toggleAutoRefresh(enabled) ==
    /\ LET cleared == IF autoRefreshInterval # Null
                      THEN timers \ {autoRefreshInterval[1]}
                      ELSE timers
           t == CHOOSE t \in 1..(Cardinality(cleared) + 1) : t \notin cleared
       IN IF enabled
          THEN /\ timers' = cleared \cup {t}
               /\ autoRefreshInterval' = Some(t)
          ELSE /\ timers' = cleared
               /\ autoRefreshInterval' = Null
    /\ UNCHANGED <<currentSnapshot, currentWFG, currentCycles, graph,
                   graphType, hoverVars, comparisonVars, viewMode, pending,
                   socket, sockets, loading>>

\* an active interval timer fires: loadSystemSnapshot()
tick(t) ==
    /\ t \in timers
    /\ load("loadSystemSnapshot")

Init ==
    /\ currentSnapshot = Null
    /\ currentWFG = Null
    /\ currentCycles = <<>>
    /\ graph = Null
    /\ graphType = "none"
    /\ NothingRendered
    /\ NothingSaved
    /\ viewMode \in ViewModes
    /\ pending = {}
    /\ socket = Null
    /\ sockets = <<>>
    /\ loading = FALSE
    /\ autoRefreshInterval = Null
    /\ timers = {}

\* the controller with monitoring started once; SpecRealtime has the
\* button pressed again
Next ==
    \/ \E mode \in ViewModes : switchViewMode(mode)
    \/ \E op \in GetOps : load(op)
    \/ \E op \in PostOps : post(op)
    \/ \E r \in pending, data \in HostSnapshots : loadResponse(r, data)
    \/ \E r \in pending : predictResponse(r)
    \/ \E r \in pending, result \in DetectionResults : detectResponse(r, result)
    \/ \E r \in pending, data \in HostSnapshots : recoverResponse(r, data)
    \/ \E r \in pending : otherResponse(r)
    \/ \E r \in pending : requestFails(r)
    \/ \E enabled \in BOOLEAN : toggleAutoRefresh(enabled)
    \/ \E t \in timers : tick(t)
    \/ toggleRealtimeMonitoring /\ Len(sockets') <= 1
    \/ \E i \in DOMAIN sockets : connect(i)
    \/ \E i \in DOMAIN sockets, data \in HostSnapshots,
          result \in DetectionResults :
          system_update(i, data, result.cycles)

Spec == Init /\ [][Next]_vars

(***************************************************************************)
(* DeadlockApp.saveSnapshot and SpecSave: snapshots saved between the      *)
(* loads, detections, recoveries and pushes of the controller, one request *)
(* at a time.                                                              *)
(***************************************************************************)
\* openComparisonMode asks for this many saved snapshots
MinCompared == 2

\* JSON.parse(JSON.stringify(wfg)): a NaN among the targets is written as
\* null; keys and other numbers are read back as they were
JsonCopyWFG(wfg) ==
    [i \in DOMAIN wfg |->
        [key |-> wfg[i].key,
         value |-> [j \in DOMAIN wfg[i].value |->
                       IF wfg[i].value[j] = NaN
                       THEN <<"n", "u", "l", "l">>
                       ELSE wfg[i].value[j]]]]

\* Date.now() at a save: later than at the previous save
SaveTimes ==
    IF savedSnapshots = <<>> THEN {1}
    ELSE {savedSnapshots[Len(savedSnapshots)].id + 1}

\* saveSnapshot with a slip: the wfg is not captured
saveSnapshotNoWFG ==
    IF currentSnapshot = Null
    THEN UNCHANGED vars
    ELSE /\ Len(savedSnapshots) < MinCompared
         /\ \E t \in SaveTimes :
               savedSnapshots' =
                   Append(savedSnapshots,
                          SavedSnapshot(Len(savedSnapshots) + 1, t,
                                        currentSnapshot[1], currentCycles,
                                        Null))
         /\ snapshotSelect' = [A |-> <<>>, B |-> <<>>]
         /\ UNCHANGED <<currentSnapshot, currentWFG, currentCycles, graph,
                        graphType, hoverVars, comparisonGraph, diffResults,
                        diffArgs, controllerVars>>

\* saveSnapshot: the snapshot is read back from its JSON text, which gives
\* the same value; the cycle list is copied; updateComparisonDropdowns
\* rebuilds the options of both selects, which leaves "" selected
saveSnapshot ==
    IF currentSnapshot = Null
    THEN UNCHANGED vars
    ELSE /\ Len(savedSnapshots) < MinCompared
         /\ \E t \in SaveTimes :
               savedSnapshots' =
                   Append(savedSnapshots,
                          SavedSnapshot(Len(savedSnapshots) + 1, t,
                                        currentSnapshot[1], currentCycles,
                                        IF currentWFG = Null THEN Null
                                        ELSE Some(JsonCopyWFG(currentWFG[1]))))
         /\ snapshotSelect' = [A |-> <<>>, B |-> <<>>]
         /\ UNCHANGED <<currentSnapshot, currentWFG, currentCycles, graph,
                        graphType, hoverVars, comparisonGraph, diffResults,
                        diffArgs, controllerVars>>

\* one request at a time
Alone == Cardinality(pending') <= 1

\* the controller after construction, real-time monitoring started and its
\* socket connected
InitSave ==
    /\ currentSnapshot = Null
    /\ currentWFG = Null
    /\ currentCycles = <<>>
    /\ graph = Null
    /\ graphType = "none"
    /\ NothingRendered
    /\ NothingSaved
    /\ viewMode \in ViewModes
    /\ pending = {}
    /\ socket = Some(1)
    /\ sockets = <<[open |-> TRUE, connected |-> TRUE, started |-> TRUE]>>
    /\ loading = FALSE
    /\ autoRefreshInterval = Null
    /\ timers = {}

\* saves between the operations that replace the snapshot, the wfg or the
\* cycles; SpecDiff has the comparisons
NextSave ==
    \/ saveSnapshot
    \/ \E mode \in ViewModes : switchViewMode(mode)
    \/ load("loadSystemSnapshot") /\ Alone
    \/ \E op \in PostOps : post(op) /\ Alone
    \/ \E r \in pending, data \in HostSnapshots : loadResponse(r, data)
    \/ \E r \in pending : predictResponse(r)
    \/ \E r \in pending, result \in DetectionResults : detectResponse(r, result)
    \/ \E r \in pending, data \in HostSnapshots : recoverResponse(r, data)
    \/ \E r \in pending : otherResponse(r)
    \/ \E r \in pending : requestFails(r)
    \/ \E i \in DOMAIN sockets, data \in HostSnapshots,
          result \in DetectionResults :
          system_update(i, data, result.cycles)

SpecSave == InitSave /\ [][NextSave]_vars

(***************************************************************************)
(* SpecRealtime: the real-time button pressed at any time, the sockets     *)
(* connecting and pushing updates, the view mode switched.                 *)
(***************************************************************************)
NextRealtime ==
    \/ toggleRealtimeMonitoring
    \/ \E i \in DOMAIN sockets : connect(i)
    \/ \E i \in DOMAIN sockets, data \in HostSnapshots,
          result \in DetectionResults :
          system_update(i, data, result.cycles)
    \/ \E mode \in ViewModes : switchViewMode(mode)

SpecRealtime == Init /\ [][NextRealtime]_vars

(***************************************************************************)
(* Properties of buildRAGGraph.                                            *)
(***************************************************************************)
\* pid and resource id of a composite key as the data model defines them:
\* the text before the first "_" and everything after it
HasSeparator(key) == \E i \in DOMAIN key : key[i] = "_"

FirstSeparator(key) ==
    CHOOSE i \in DOMAIN key : key[i] = "_" /\ \A j \in 1..(i - 1) : key[j] # "_"

PidPart(key) == SubSeq(key, 1, FirstSeparator(key) - 1)

RidPart(key) == SubSeq(key, FirstSeparator(key) + 1, Len(key))

RAGBuilt == graphType = "rag"

IsAllocation(l) == l.type = "allocation"

IsRequest(l) == l.type = "request"

AllocId(key) == <<"a", "l", "l", "o", "c", "_">> \o key

ReqId(key) == <<"r", "e", "q", "_">> \o key

NodeIds(g) == {g.nodes[i].id : i \in DOMAIN g.nodes}

\* C1 as claimed: one process node per entry of processes, with id
\* "P<pid>" and type process, one resource node per entry of resources,
\* with id "R<rid>", type resource and the entry's total, and no other node.
C1_NodesAsClaimed ==
    RAGBuilt =>
        LET ps == currentSnapshot[1].processes
            rs == currentSnapshot[1].resources
            ns == graph[1].nodes
        IN /\ Len(ns) = Len(ps) + Len(rs)
           /\ \A i \in DOMAIN ps :
                /\ ns[i].id = <<"P">> \o NumberToString(ps[i].pid)
                /\ ns[i].type = "process"
           /\ \A j \in DOMAIN rs :
                /\ ns[Len(ps) + j].id = <<"R">> \o rs[j].key
                /\ ns[Len(ps) + j].type = "resource"
                /\ ns[Len(ps) + j].total = rs[j].value.total

\* C1 amended: one node per entry of processes and one per entry of
\* resources and no other node, whatever allocation and request hold; the
\* node of a process entry carries its pid, the node of a resource entry its
\* total; its id is "P<pid>" / "R<rid>" and its type process / resource
\* unless the entry has a field id or type of its own, which then replaces
\* it.
C1_NodesPerEntry ==
    RAGBuilt =>
        LET ps == currentSnapshot[1].processes
            rs == currentSnapshot[1].resources
            ns == graph[1].nodes
        IN /\ Len(ns) = Len(ps) + Len(rs)
           /\ \A i \in DOMAIN ps :
                /\ ns[i].pid = ps[i].pid
                /\ ns[i].id = IF "id" \in DOMAIN ps[i] THEN ps[i].id
                              ELSE <<"P">> \o NumberToString(ps[i].pid)
                /\ ns[i].type = IF "type" \in DOMAIN ps[i] THEN ps[i].type
                                ELSE "process"
           /\ \A j \in DOMAIN rs :
                LET n == ns[Len(ps) + j]
                IN /\ n.total = rs[j].value.total
                   /\ n.id = IF "id" \in DOMAIN rs[j].value THEN rs[j].value.id
                             ELSE <<"R">> \o rs[j].key
                   /\ n.type = IF "type" \in DOMAIN rs[j].value
                               THEN rs[j].value.type ELSE "resource"

\* C1 witness: a graph built from a snapshot with processes, one of them
\* with a type field of its own, resources, and an allocation with a count.
C1_Witness ==
    /\ RAGBuilt
    /\ \E i \in DOMAIN currentSnapshot[1].processes :
          "type" \in DOMAIN currentSnapshot[1].processes[i]
    /\ currentSnapshot[1].resources # <<>>
    /\ \E i \in DOMAIN currentSnapshot[1].allocation :
          currentSnapshot[1].allocation[i].value > 0

\* C2: the allocation edges are exactly one edge per allocation key with a
\* count > 0, from "P<pid>" to "R<rid>" with weight = count and id
\* "alloc_<key>"; a key with count 0 has no edge.
C2_AllocationEdges ==
    RAGBuilt =>
        LET al == currentSnapshot[1].allocation
            ls == SelectSeq(graph[1].links, IsAllocation)
        IN /\ \A i \in DOMAIN al :
                LET hits == {k \in DOMAIN ls : ls[k].id = AllocId(al[i].key)}
                IN /\ al[i].value = 0 => hits = {}
                   /\ (al[i].value > 0 /\ HasSeparator(al[i].key)) =>
                        /\ Cardinality(hits) = 1
                        /\ \A k \in hits :
                             /\ ls[k].source = <<"P">> \o PidPart(al[i].key)
                             /\ ls[k].target = <<"R">> \o RidPart(al[i].key)
                             /\ ls[k].weight = al[i].value
           /\ \A k \in DOMAIN ls :
                \E i \in DOMAIN al :
                    al[i].value > 0 /\ ls[k].id = AllocId(al[i].key)

\* C3: the request edges are exactly one edge per request key with a
\* count > 0, from "R<rid>" to "P<pid>" with weight = count and id
\* "req_<key>"; a key with count 0 has no edge.
C3_RequestEdges ==
    RAGBuilt =>
        LET rq == currentSnapshot[1].request
            ls == SelectSeq(graph[1].links, IsRequest)
        IN /\ \A i \in DOMAIN rq :
                LET hits == {k \in DOMAIN ls : ls[k].id = ReqId(rq[i].key)}
                IN /\ rq[i].value = 0 => hits = {}
                   /\ (rq[i].value > 0 /\ HasSeparator(rq[i].key)) =>
                        /\ Cardinality(hits) = 1
                        /\ \A k \in hits :
                             /\ ls[k].source = <<"R">> \o RidPart(rq[i].key)
                             /\ ls[k].target = <<"P">> \o PidPart(rq[i].key)
                             /\ ls[k].weight = rq[i].value
           /\ \A k \in DOMAIN ls :
                \E i \in DOMAIN rq :
                    rq[i].value > 0 /\ ls[k].id = ReqId(rq[i].key)

\* C4: in every built graph, source and target of every link are ids of
\* nodes of the same graph.
C4_NoDanglingEdge ==
    graph # Null =>
        \A k \in DOMAIN graph[1].links :
            /\ graph[1].links[k].source \in NodeIds(graph[1])
            /\ graph[1].links[k].target \in NodeIds(graph[1])

\* the link end `end` is the id of a node of type `type`
EndHasType(g, end, type) ==
    \E i \in DOMAIN g.nodes : g.nodes[i].id = end /\ g.nodes[i].type = type

\* C5: an allocation edge goes from a process node to a resource node, a
\* request edge from a resource node to a process node, a wait-for edge
\* from a process node to a process node.
C5_EdgeDirection ==
    graph # Null =>
        \A k \in DOMAIN graph[1].links :
            LET l == graph[1].links[k]
            IN /\ l.type = "allocation" =>
                    /\ EndHasType(graph[1], l.source, "process")
                    /\ EndHasType(graph[1], l.target, "resource")
               /\ l.type = "request" =>
                    /\ EndHasType(graph[1], l.source, "resource")
                    /\ EndHasType(graph[1], l.target, "process")
               /\ l.type = "wait-for" =>
                    /\ EndHasType(graph[1], l.source, "process")
                    /\ EndHasType(graph[1], l.target, "process")

MappingKeys(m) == {m[i].key : i \in DOMAIN m}

\* the keys of m that have no "_" and a count > 0 (a count of 0 is skipped
\* before the key is looked at)
MalformedKeys(m) ==
    {m[i].key : i \in {j \in DOMAIN m : m[j].value > 0 /\ ~HasSeparator(m[j].key)}}

\* C6: a build on a snapshot with an allocation or request key without "_"
\* fails and returns no graph: no edge is emitted for the key, and the key
\* is not dropped from a graph that is returned.
C6_MalformedKeyFails ==
    (/\ currentSnapshot # Null
     /\ MalformedKeys(currentSnapshot[1].allocation)
           \cup MalformedKeys(currentSnapshot[1].request) # {})
    => graph = Null

\* C7: a composite key is split on its first "_" only: the edge of a key
\* runs between "P<text before the first _>" and "R<everything after it>".
C7_SplitOnFirstSeparator ==
    RAGBuilt =>
        \A k \in DOMAIN graph[1].links :
            LET l == graph[1].links[k]
            IN /\ \A key \in MappingKeys(currentSnapshot[1].allocation) :
                    (HasSeparator(key) /\ l.id = AllocId(key)) =>
                        /\ l.source = <<"P">> \o PidPart(key)
                        /\ l.target = <<"R">> \o RidPart(key)
               /\ \A key \in MappingKeys(currentSnapshot[1].request) :
                    (HasSeparator(key) /\ l.id = ReqId(key)) =>
                        /\ l.source = <<"R">> \o RidPart(key)
                        /\ l.target = <<"P">> \o PidPart(key)

(***************************************************************************)
(* Properties of buildWFGGraph.                                            *)
(***************************************************************************)
WFGBuilt == graphType = "wfg"

\* the pids that occur in wfg, as a key or as a target
OccurringPids(wfg) ==
    {p \in Pids : \E i \in DOMAIN wfg :
        wfg[i].key = NumberToString(p) \/ p \in Range(wfg[i].value)}

\* how many elements of the sequence s equal x
Count(s, x) == Cardinality({i \in DOMAIN s : s[i] = x})

\* the targets listed under src, none when src is no key
TargetsOf(wfg, src) ==
    IF \E i \in DOMAIN wfg : wfg[i].key = NumberToString(src)
    THEN (CHOOSE e \in Range(wfg) : e.key = NumberToString(src)).value
    ELSE <<>>

\* C8: exactly one process node for each pid that occurs as a key or as a
\* target of the wfg mapping and no other node, and one wait-for edge
\* "P<src>" -> "P<target>" with id "wfg_<src>_<target>" per target listed
\* under src; the empty mapping yields no node and no edge.
C8_WFGNodesAndEdges ==
    WFGBuilt =>
        LET wfg == currentWFG[1]
            ns == graph[1].nodes
            ls == graph[1].links
        IN /\ Len(ns) = Cardinality(OccurringPids(wfg))
           /\ \A p \in OccurringPids(wfg) :
                Cardinality({i \in DOMAIN ns :
                               /\ ns[i].pid = p
                               /\ ns[i].id = <<"P">> \o NumberToString(p)
                               /\ ns[i].type = "process"}) = 1
           /\ Len(ls) = TotalTargets(wfg)
           /\ \A src \in Pids, target \in Pids :
                Cardinality({k \in DOMAIN ls :
                               /\ ls[k].source = <<"P">> \o NumberToString(src)
                               /\ ls[k].target = <<"P">> \o NumberToString(target)
                               /\ ls[k].type = "wait-for"
                               /\ ls[k].id = <<"w", "f", "g", "_">>
                                             \o NumberToString(src) \o <<"_">>
                                             \o NumberToString(target)})
                = Count(TargetsOf(wfg, src), target)
           /\ wfg = <<>> => (ns = <<>> /\ ls = <<>>)

\* C8 witness: a graph built from a mapping in which one pid is a key and
\* also a target, and one key lists two targets.
C8_Witness ==
    /\ WFGBuilt
    /\ \E p \in Pids :
          /\ TargetsOf(currentWFG[1], p) # <<>>
          /\ \E q \in Pids : p \in Range(TargetsOf(currentWFG[1], q))
    /\ \E p \in Pids : Len(TargetsOf(currentWFG[1], p)) >= 2

\* C9: a node of the built graph has inCycle = TRUE if and only if its pid
\* occurs in a cycle of the cycle list handed to buildWFGGraph, whatever the
\* edges are; with the empty cycle list no node has it.
C9_InCycleFromCycleList ==
    WFGBuilt =>
        \A i \in DOMAIN graph[1].nodes :
            graph[1].nodes[i].inCycle
            <=> (\E c \in DOMAIN currentCycles :
                    \E j \in DOMAIN currentCycles[c] :
                        currentCycles[c][j] = graph[1].nodes[i].pid)

\* C9 witness: a graph with a node in a cycle of the list, and a node in no
\* cycle of the list although the edges close a cycle through it.
C9_Witness ==
    /\ WFGBuilt
    /\ \E i \in DOMAIN graph[1].nodes : graph[1].nodes[i].inCycle
    /\ \E i \in DOMAIN graph[1].nodes :
          /\ ~graph[1].nodes[i].inCycle
          /\ \E q \in Pids :
                /\ q \in Range(TargetsOf(currentWFG[1], graph[1].nodes[i].pid))
                /\ graph[1].nodes[i].pid \in Range(TargetsOf(currentWFG[1], q))

(***************************************************************************)
(* Properties of buildWFGFromSnapshot.                                     *)
(***************************************************************************)
\* the count under key, 0 when the mapping has no such key
Lookup(m, key) ==
    IF \E i \in DOMAIN m : m[i].key = key
    THEN (CHOOSE e \in Range(m) : e.key = key).value
    ELSE 0

RIds == Range(RIdList)

\* the derived WFG has an edge p -> q
WaitsFor(p, q) ==
    \E i \in DOMAIN currentWFG[1] :
        /\ ParseInt(currentWFG[1][i].key) = p
        /\ q \in Range(currentWFG[1][i].value)

\* C10: in the derived WFG p has an edge to q if and only if, for some
\* resource rid, request[p_rid] > 0, allocation[q_rid] > 0 and q # p; no
\* self-loop is derived.
C10_DerivedEdges ==
    (currentSnapshot # Null /\ currentWFG # Null) =>
        \A p \in Pids, q \in Pids :
            WaitsFor(p, q)
            <=> (/\ q # p
                 /\ \E rid \in RIds :
                       /\ Lookup(currentSnapshot[1].request, MakeKey(p, rid)) > 0
                       /\ Lookup(currentSnapshot[1].allocation,
                                 MakeKey(q, rid)) > 0)

\* pid holds units of rid / asks for units of rid, by a well-formed key
Holds(snapshot, pid, rid) == Lookup(snapshot.allocation, MakeKey(pid, rid)) > 0

Asks(snapshot, pid, rid) == Lookup(snapshot.request, MakeKey(pid, rid)) > 0

\* C11: the derived WFG depends on request and allocation only: the
\* snapshot with any other processes list and any other resources (totals)
\* derives the same edges, and p waits for q as soon as p asks for a
\* resource that q holds, whatever the total of that resource.
C11_OnlyRequestAndAllocation ==
    (currentSnapshot # Null /\ currentWFG # Null) =>
        /\ \A ps \in ProcessLists, rs \in ResourceMaps :
              DerivedWFG([currentSnapshot[1] EXCEPT !.processes = ps,
                                                    !.resources = rs])
              = currentWFG[1]
        /\ \A p \in Pids, q \in Pids, rid \in RIds :
              (/\ q # p
               /\ Asks(currentSnapshot[1], p, rid)
               /\ Holds(currentSnapshot[1], q, rid)) => WaitsFor(p, q)

\* C11 witness: a derived edge p -> q for a resource of which q is the only
\* holder and holds less than the total (units are free).
C11_Witness ==
    /\ currentSnapshot # Null
    /\ currentWFG # Null
    /\ \E p \in Pids, q \in Pids, rid \in RIds :
          /\ q # p
          /\ Asks(currentSnapshot[1], p, rid)
          /\ Holds(currentSnapshot[1], q, rid)
          /\ WaitsFor(p, q)
          /\ \A r \in Pids \ {q} : ~Holds(currentSnapshot[1], r, rid)
          /\ ResourceTotal(currentSnapshot[1].resources, rid)
                > Lookup(currentSnapshot[1].allocation, MakeKey(q, rid))

(***************************************************************************)
(* Properties of the hover handlers.                                       *)
(***************************************************************************)
\* the id of the hovered node
Focus == graph[1].nodes[hovered[1]].id

\* link k of the rendered graph has the hovered node as source or target
Incident(k) ==
    graph[1].links[k].source = Focus \/ graph[1].links[k].target = Focus

\* C13: while a node f is hovered, the highlighted links are exactly the
\* links whose source or target is f, and every highlighted node is f or an
\* end of one of these links; everything else is dimmed.
C13_OneHopNeighbourhood ==
    hovered # Null =>
        /\ \A k \in DOMAIN graph[1].links :
              /\ linkOpacity[k] = Opaque <=> Incident(k)
              /\ linkOpacity[k] \in {Opaque, Dimmed}
        /\ \A j \in DOMAIN graph[1].nodes :
              /\ nodeOpacity[j] = Opaque =>
                    \/ graph[1].nodes[j].id = Focus
                    \/ \E k \in DOMAIN graph[1].links :
                          /\ Incident(k)
                          /\ graph[1].nodes[j].id
                                \in {graph[1].links[k].source,
                                     graph[1].links[k].target}
              /\ nodeOpacity[j] \in {Opaque, Dimmed}

\* C13 witness: f is hovered and has a link to a neighbour, which is
\* highlighted; a second link leads on from the neighbour to a third node,
\* which is dimmed like that link, and a node without any link is dimmed.
C13_Witness ==
    /\ hovered # Null
    /\ \E k, m \in DOMAIN graph[1].links, j, n \in DOMAIN graph[1].nodes :
          /\ Incident(k)
          /\ ~Incident(m)
          /\ graph[1].links[m].source = graph[1].links[k].target
          /\ graph[1].nodes[j].id = graph[1].links[k].target
          /\ nodeOpacity[j] = Opaque
          /\ graph[1].nodes[n].id = graph[1].links[m].target
          /\ nodeOpacity[n] = Dimmed
          /\ linkOpacity[k] = Opaque
          /\ linkOpacity[m] = Dimmed
    /\ \E j \in DOMAIN graph[1].nodes :
          /\ nodeOpacity[j] = Dimmed
          /\ \A k \in DOMAIN graph[1].links :
                graph[1].nodes[j].id \notin {graph[1].links[k].source,
                                             graph[1].links[k].target}

\* C14: the hovered node itself is always highlighted; when it has no link
\* the highlighted nodes are the hovered node alone and no link is
\* highlighted.
C14_FocusHighlighted ==
    hovered # Null =>
        /\ nodeOpacity[hovered[1]] = Opaque
        /\ (\A k \in DOMAIN graph[1].links : ~Incident(k)) =>
              /\ \A j \in DOMAIN graph[1].nodes :
                    nodeOpacity[j] = Opaque <=> graph[1].nodes[j].id = Focus
              /\ \A k \in DOMAIN graph[1].links : linkOpacity[k] = Dimmed

(***************************************************************************)
(* Properties of displayDifferences.                                       *)
(***************************************************************************)
\* the saved snapshots last handed to displayDifferences, and the list shown
ComparedA == Find(savedSnapshots, diffArgs[1])[1]

ComparedB == Find(savedSnapshots, diffArgs[2])[1]

Shown == diffResults[1]

IsPrefix(p, t) == Len(p) <= Len(t) /\ SubSeq(t, 1, Len(p)) = p

IsSuffix(p, t) ==
    Len(p) <= Len(t) /\ SubSeq(t, Len(t) - Len(p) + 1, Len(t)) = p

\* the five groups of entries
IsProcessAddition(e) ==
    IsPrefix(ProcessText, e.text) /\ IsSuffix(WasAddedText, e.text)

IsProcessRemoval(e) ==
    IsPrefix(ProcessText, e.text) /\ IsSuffix(WasRemovedText, e.text)

IsCycleEntry(e) == IsPrefix(CyclesText, e.text)

IsAllocationEntry(e) == IsPrefix(AllocationsText, e.text)

IsRequestEntry(e) == IsPrefix(RequestsText, e.text)

Groups == <<"addition", "removal", "cycles", "allocations", "requests">>

InGroup(e, n) ==
    \/ Groups[n] = "addition" /\ IsProcessAddition(e)
    \/ Groups[n] = "removal" /\ IsProcessRemoval(e)
    \/ Groups[n] = "cycles" /\ IsCycleEntry(e)
    \/ Groups[n] = "allocations" /\ IsAllocationEntry(e)
    \/ Groups[n] = "requests" /\ IsRequestEntry(e)

\* the pids of a saved snapshot's process list
PidSet(snapshot) ==
    {snapshot.data.processes[i].pid : i \in DOMAIN snapshot.data.processes}

\* C15: the difference list is ordered by group: process additions, then
\* process removals, then the cycle-count entry, then the allocation-count
\* entry, then the request-count entry; every entry belongs to one group
\* and no entry of a later group precedes an entry of an earlier one.
C15_DifferencesOrdered ==
    diffArgs # Null =>
        /\ \A i \in DOMAIN Shown :
              Cardinality({n \in DOMAIN Groups : InGroup(Shown[i], n)}) = 1
        /\ \A i \in DOMAIN Shown, j \in DOMAIN Shown :
              i < j =>
                \A n \in DOMAIN Groups, m \in DOMAIN Groups :
                    (InGroup(Shown[i], n) /\ InGroup(Shown[j], m)) => n <= m

\* C15 witness: a difference list with an entry of each of the five groups.
C15_Witness ==
    /\ diffArgs # Null
    /\ \A n \in DOMAIN Groups : \E i \in DOMAIN Shown : InGroup(Shown[i], n)

\* C16: when the numbers of cycles differ there is exactly one cycle-count
\* entry, of type removed when B has fewer cycles than A and of type added
\* when B has more; when they are equal there is none.
C16_CycleEntryStyle ==
    diffArgs # Null =>
        LET cyclesA == Len(ComparedA.cycles)
            cyclesB == Len(ComparedB.cycles)
            hits == {i \in DOMAIN Shown : IsCycleEntry(Shown[i])}
        IN /\ cyclesA = cyclesB => hits = {}
           /\ cyclesA # cyclesB =>
                /\ Cardinality(hits) = 1
                /\ \A i \in hits :
                      Shown[i].type = IF cyclesB < cyclesA THEN "removed"
                                      ELSE "added"

\* C17: exactly one added entry for each pid of B's process set that is not
\* in A's, exactly one removed entry for each pid of A's process set that is
\* not in B's (a pid listed twice counts once), and no other process entry.
C17_ProcessEntries ==
    diffArgs # Null =>
        /\ \A pid \in PidSet(ComparedB) \ PidSet(ComparedA) :
              Cardinality({i \in DOMAIN Shown :
                  /\ Shown[i].type = "added"
                  /\ Shown[i].text = ProcessText \o NumberToString(pid)
                                     \o WasAddedText}) = 1
        /\ \A pid \in PidSet(ComparedA) \ PidSet(ComparedB) :
              Cardinality({i \in DOMAIN Shown :
                  /\ Shown[i].type = "removed"
                  /\ Shown[i].text = ProcessText \o NumberToString(pid)
                                     \o WasRemovedText}) = 1
        /\ Cardinality({i \in DOMAIN Shown : IsPrefix(ProcessText, Shown[i].text)})
             = Cardinality(PidSet(ComparedB) \ PidSet(ComparedA))
               + Cardinality(PidSet(ComparedA) \ PidSet(ComparedB))

\* C17 witness: A lists one pid twice, B lists another pid, and the list
\* has entries for both.
C17_Witness ==
    /\ diffArgs # Null
    /\ Len(ComparedA.data.processes) > Cardinality(PidSet(ComparedA))
    /\ PidSet(ComparedB) \ PidSet(ComparedA) # {}
    /\ PidSet(ComparedA) \ PidSet(ComparedB) # {}
    /\ \E i \in DOMAIN Shown : IsProcessAddition(Shown[i])
    /\ \E i \in DOMAIN Shown : IsProcessRemoval(Shown[i])

\* A and B agree in everything the comparison looks at
SameShape(snapshotA, snapshotB) ==
    /\ PidSet(snapshotA) = PidSet(snapshotB)
    /\ Len(snapshotA.cycles) = Len(snapshotB.cycles)
    /\ Cardinality(MappingKeys(snapshotA.data.allocation))
         = Cardinality(MappingKeys(snapshotB.data.allocation))
    /\ Cardinality(MappingKeys(snapshotA.data.request))
         = Cardinality(MappingKeys(snapshotB.data.request))

\* C18: the difference list is empty if and only if A and B have the same
\* pid set, the same number of cycles, of allocation keys and of request
\* keys; it is empty for a snapshot compared with itself or with a copy.
C18_EmptyDifferences ==
    diffArgs # Null =>
        /\ Shown = <<>> <=> SameShape(ComparedA, ComparedB)
        /\ (\/ diffArgs[1] = diffArgs[2]
            \/ /\ ComparedA.data = ComparedB.data
               /\ ComparedA.cycles = ComparedB.cycles) => Shown = <<>>

\* C18 witness: the empty list for two saved snapshots, one a copy of the
\* other, with processes, a cycle and an allocation.
C18_Witness ==
    /\ diffArgs # Null
    /\ diffArgs[1] # diffArgs[2]
    /\ ComparedA.data = ComparedB.data
    /\ ComparedA.cycles = ComparedB.cycles
    /\ ComparedA.data.processes # <<>>
    /\ ComparedA.cycles # <<>>
    /\ ComparedA.data.allocation # <<>>
    /\ Shown = <<>>

\* C19: there is one changed entry for allocations if and only if the
\* numbers of allocation keys differ, one changed entry for requests if
\* and only if the numbers of request keys differ, and never more than one.
C19_CountEntries ==
    diffArgs # Null =>
        LET allocs == {i \in DOMAIN Shown : IsAllocationEntry(Shown[i])}
            reqs == {i \in DOMAIN Shown : IsRequestEntry(Shown[i])}
        IN /\ Cardinality(allocs)
                = IF Cardinality(MappingKeys(ComparedA.data.allocation))
                     # Cardinality(MappingKeys(ComparedB.data.allocation))
                  THEN 1 ELSE 0
           /\ Cardinality(reqs)
                = IF Cardinality(MappingKeys(ComparedA.data.request))
                     # Cardinality(MappingKeys(ComparedB.data.request))
                  THEN 1 ELSE 0
           /\ \A i \in allocs \cup reqs : Shown[i].type = "changed"

\* C19 witness: A and B have one allocation key each, not the same key,
\* and the list shown has no entry for allocations or requests.
C19_Witness ==
    /\ diffArgs # Null
    /\ MappingKeys(ComparedA.data.allocation)
         # MappingKeys(ComparedB.data.allocation)
    /\ Len(ComparedA.data.allocation) = Len(ComparedB.data.allocation)
    /\ \A i \in DOMAIN Shown :
          ~IsAllocationEntry(Shown[i]) /\ ~IsRequestEntry(Shown[i])

\* C20: a comparison leaves the saved-snapshot list, A and B included, as
\* it was, and the list it shows is the one a further run on the same pair
\* returns.
C20_DiffLeavesSnapshots ==
    [][/\ savedSnapshots' = savedSnapshots
       /\ diffArgs' # Null =>
             diffResults' =
                 Some(displayDifferences(Find(savedSnapshots', diffArgs'[1])[1],
                                         Find(savedSnapshots', diffArgs'[2])[1]))]_vars

\* C20 witness: a non-empty difference list is shown for two different
\* saved snapshots with processes, both rendered in the comparison graphs.
C20_Witness ==
    /\ diffArgs # Null
    /\ diffArgs[1] # diffArgs[2]
    /\ Shown # <<>>
    /\ ComparedA.data.processes # <<>>
    /\ comparisonGraph.A # Null
    /\ comparisonGraph.B # Null

(***************************************************************************)
(* Properties of refreshVisualization in the host controller.              *)
(***************************************************************************)
\* the step handles a response of /api/detect: currentWFG and currentCycles
\* become the wfg and cycles of the result
DetectAnswered ==
    \E r \in pending, result \in DetectionResults :
        /\ r.op = "detect"
        /\ pending' = pending \ {r}
        /\ currentWFG' = Some(result.wfg)
        /\ currentCycles' = result.cycles

\* the step refreshes the visualization: a snapshot has arrived or the view
\* mode has changed
Refreshed == currentSnapshot' # currentSnapshot \/ viewMode' # viewMode

\* C12: in every run of the host controller, a held wfg is replaced only by
\* the wfg of a detection result, never by a local derivation; a refresh in
\* WFG view with a wfg held renders that wfg with the current cycles; and
\* the wfg that appears without a detection result, in a state that held
\* none, is the one derived from the current snapshot
C12_DerivedOnlyWhenAbsent ==
    [][/\ currentWFG # Null => (currentWFG' = currentWFG \/ DetectAnswered)
       /\ ((currentWFG # Null \/ DetectAnswered) /\ viewMode' = "WFG"
            /\ Refreshed)
              => /\ graph' = Some(buildWFGGraph(currentWFG'[1], currentCycles'))
                 /\ graphType' = "wfg"
       /\ (currentWFG = Null /\ currentWFG' # Null /\ ~DetectAnswered)
              => /\ viewMode' = "WFG"
                 /\ currentSnapshot' # Null
                 /\ currentWFG' = Some(DerivedWFG(currentSnapshot'[1]))]_vars

\* C12, witness: in WFG view the wfg of a detection result with a cycle is
\* held and rendered, after a system update has brought a snapshot whose
\* derivation differs from it, and an empty cycle list
C12_Witness ==
    /\ viewMode = "WFG"
    /\ currentSnapshot # Null
    /\ currentWFG # Null
    /\ \E result \in DetectionResults :
          /\ result.cycles # <<>>
          /\ currentWFG = Some(result.wfg)
    /\ DerivedWFG(currentSnapshot[1]) # currentWFG[1]
    /\ currentCycles = <<>>
    /\ graphType = "wfg"
    /\ graph = Some(buildWFGGraph(currentWFG[1], currentCycles))

(***************************************************************************)
(* Properties of the graph of a locally derived WFG.                       *)
(***************************************************************************)
\* C30: in every wait-for graph rendered from a locally derived WFG, no two
\* links share an id and no two links join the same ordered pair of
\* processes
C30_UniqueLinkIds ==
    (graphType = "wfg" /\ graph # Null)
    => \A j, k \in DOMAIN graph[1].links :
          j # k => /\ graph[1].links[j].id # graph[1].links[k].id
                   /\ <<graph[1].links[j].source, graph[1].links[j].target>>
                      # <<graph[1].links[k].source, graph[1].links[k].target>>

(***************************************************************************)
(* Properties of the real-time sockets.                                    *)
(***************************************************************************)
\* the sockets that have not been disconnected
LiveSockets == {i \in DOMAIN sockets : sockets[i].open}

\* C28: after any sequence of toggleRealtimeMonitoring calls and connect
\* events, at most one socket exists that has not been disconnected
C28_OneLiveSocket == Cardinality(LiveSockets) <= 1

(***************************************************************************)
(* Properties of the auto-refresh timer.                                   *)
(***************************************************************************)
\* C29: after any sequence of toggleAutoRefresh calls at most one interval
\* timer is active, it is the one held in autoRefreshInterval, and when
\* autoRefreshInterval is null (as toggleAutoRefresh(false) leaves it) no
\* timer is active
C29_OneTimer ==
    /\ Cardinality(timers) <= 1
    /\ timers = IF autoRefreshInterval = Null THEN {}
                ELSE {autoRefreshInterval[1]}

\* C29, witness: the timer held is the only one active and has fired, its
\* loadSystemSnapshot waiting for the response
C29_Witness ==
    /\ autoRefreshInterval # Null
    /\ timers = {autoRefreshInterval[1]}
    /\ [op |-> "loadSystemSnapshot", body |-> Null] \in pending

(***************************************************************************)
(* Properties of the host controller: snapshots, detection, overlay.       *)
(***************************************************************************)
\* the step stores the wfg and cycles of a detection result that differ
\* from those held: r is the request answered
DetectStored(r) ==
    /\ r.op = "detect"
    /\ pending' = pending \ {r}
    /\ currentWFG' # currentWFG \/ currentCycles' # currentCycles
    /\ \E result \in DetectionResults :
          /\ currentWFG' = Some(result.wfg)
          /\ currentCycles' = result.cycles

\* C22: whenever the controller obtains a new snapshot while WFG view is
\* active, the graph handed to the renderer is the wait-for graph derived
\* from the new snapshot, or that of a detection result, never one derived
\* for an earlier snapshot
C22_GraphOfNewSnapshot ==
    [][(currentSnapshot' # currentSnapshot /\ currentSnapshot' # Null
        /\ viewMode' = "WFG")
       => /\ graphType' = "wfg"
          /\ \/ graph' = Some(buildWFGGraph(DerivedWFG(currentSnapshot'[1]),
                                            currentCycles'))
             \/ \E result \in DetectionResults :
                   graph' = Some(buildWFGGraph(result.wfg, currentCycles'))]_vars

\* C23: after every successful detect the graph shown is the wait-for
\* graph built from the wfg and cycles of that detection, whichever view
\* was active
C23_DetectionShown ==
    [][(\E r \in pending : DetectStored(r))
       => /\ graphType' = "wfg"
          /\ graph' = Some(buildWFGGraph(currentWFG'[1], currentCycles'))]_vars

\* C24: when detect completes successfully, the wfg and cycles it stores
\* were computed from the snapshot that is current at that moment: the
\* snapshot posted is the current snapshot
C24_DetectionOfCurrentSnapshot ==
    [][\A r \in pending : DetectStored(r) => r.body = currentSnapshot]_vars

\* C27: in every reachable state the loading overlay is shown while at
\* least one request is in flight
C27_OverlayWhileInFlight == pending # {} => loading

(***************************************************************************)
(* Properties of saveSnapshot, of the guards and of the failure handling.  *)
(***************************************************************************)
\* C21: the saved-snapshot list changes only by one entry appended, whose
\* data, cycles and wfg equal the current snapshot, cycles and wfg of that
\* moment; the entries already saved stay as they are in every step
C21_SavedSnapshotsKept ==
    [][\/ savedSnapshots' = savedSnapshots
       \/ /\ Len(savedSnapshots') = Len(savedSnapshots) + 1
          /\ SubSeq(savedSnapshots', 1, Len(savedSnapshots)) = savedSnapshots
          /\ currentSnapshot # Null
          /\ savedSnapshots'[Len(savedSnapshots')].data = currentSnapshot[1]
          /\ savedSnapshots'[Len(savedSnapshots')].cycles = currentCycles
          /\ savedSnapshots'[Len(savedSnapshots')].wfg = currentWFG]_vars

\* C21, witness: two snapshots are saved, the first with a wfg; since then
\* the current snapshot, wfg and cycles have all been replaced
C21_Witness ==
    /\ Len(savedSnapshots) = 2
    /\ currentSnapshot # Null
    /\ savedSnapshots[1].data # currentSnapshot[1]
    /\ savedSnapshots[1].wfg # Null
    /\ savedSnapshots[1].wfg # currentWFG
    /\ savedSnapshots[1].cycles # currentCycles
    /\ savedSnapshots[2].data # savedSnapshots[1].data

\* C25: while no snapshot is loaded, no step sends a POST request (predict,
\* predictML, detect, recover) or saves a snapshot, and as long as no
\* snapshot arrives the wfg and the cycles stay as they are
C25_NothingWithoutSnapshot ==
    [][currentSnapshot = Null
       => /\ \A r \in pending' \ pending : r.op \notin PostOps
          /\ savedSnapshots' = savedSnapshots
          /\ currentSnapshot' = Null
                => /\ currentWFG' = currentWFG
                   /\ currentCycles' = currentCycles]_vars

\* C25, witness: no snapshot is loaded yet and nothing is saved, while the
\* first load waits for its response
C25_Witness ==
    /\ currentSnapshot = Null
    /\ currentWFG = Null
    /\ savedSnapshots = <<>>
    /\ pending = {[op |-> "loadSystemSnapshot", body |-> Null]}

\* the operations of C26
FailOps == {"loadSystemSnapshot", "loadRealtimeSnapshot", "loadSimulation",
            "detect", "recover"}

\* the step ends request r with all the assignments of its handler: a new
\* snapshot (and a wfg derived where none was held), or the wfg and cycles
\* of one detection result
FullUpdate(r) ==
    IF r.op = "detect"
    THEN /\ currentSnapshot' = currentSnapshot
         /\ \E result \in DetectionResults :
               /\ currentWFG' = Some(result.wfg)
               /\ currentCycles' = result.cycles
    ELSE /\ currentSnapshot' # Null
         /\ currentSnapshot'[1] \in HostSnapshots
         /\ currentCycles' = currentCycles
         /\ \/ currentWFG' = currentWFG
            \/ /\ currentWFG = Null
               /\ currentWFG' = Some(DerivedWFG(currentSnapshot'[1]))

\* C26: a step that ends a load, detect or recover request either is the
\* full update of its handler or leaves currentSnapshot, currentWFG and
\* currentCycles as they were: a failed request updates nothing
C26_NoPartialUpdate ==
    [][\A r \in pending :
          (r.op \in FailOps /\ pending' = pending \ {r})
          => \/ FullUpdate(r)
             \/ /\ currentSnapshot' = currentSnapshot
                /\ currentWFG' = currentWFG
                /\ currentCycles' = currentCycles]_vars

\* C26, witness: of two requests one has ended and hidden the overlay;
\* it was a load, since showAnalytics is still waiting and nothing can be
\* posted, and it failed: no snapshot is loaded
C26_Witness ==
    /\ currentSnapshot = Null
    /\ ~loading
    /\ pending = {[op |-> "showAnalytics", body |-> Null]}

====
